---- MODULE Spec2Model ----
(***************************************************************************)
(* SharedWebSocketManager (frontend/src/hooks/useWebSocketManager.ts) and  *)
(* the consumers that drive it through the useWebSocket hook.              *)
(*                                                                         *)
(* The manager keeps four maps keyed by connection id (connections,        *)
(* messageHandlers, subscribedChannels, reconnectTimeouts).  Every         *)
(* WebSocket it creates and every timer it arms is an object of its own,   *)
(* kept in the sequences sockets and timers: the event handlers of a       *)
(* socket close over that socket and its connection id, and keep running   *)
(* for a socket the maps no longer refer to.                               *)
(***************************************************************************)
EXTENDS Integers, Sequences, FiniteSets, TLC

\* ---------------------------------------------------------------- bounds
NumIds == 2
MaxSockets == 3
MaxTimers == 2
MaxFrames == 2
MaxChanList == 1
MaxMaps == 2
MaxTokens == 2

\* ------------------------------------------------------------ input sets
Ids == 1..NumIds
Channels == {"x", "y"}
Types == {"trade_event", "price_update", "all"}
Callbacks == {"h1", "h2"}
Consumers == {"A", "B"}

\* Sequences over S of length at most n: the arrays a consumer may pass.
RECURSIVE SeqsUpTo(_, _)
SeqsUpTo(S, n) ==
    IF n = 0 THEN {<<>>}
    ELSE LET shorter == SeqsUpTo(S, n - 1)
         IN shorter \cup {Append(q, e) : q \in shorter, e \in S}

ChannelLists == SeqsUpTo(Channels, MaxChanList)

Range(q) == {q[k] : k \in 1..Len(q)}

\* ------------------------------------------------- JavaScript Set and Map
\* A JavaScript Set iterates in insertion order and holds a value once: a
\* sequence without repetition.
SetAdd(q, e) == IF e \in Range(q) THEN q ELSE Append(q, e)

SetDelete(q, e) == SelectSeq(q, LAMBDA v : v # e)

\* channels.forEach(ch => channelSet.add(ch))
RECURSIVE AddAll(_, _)
AddAll(q, list) ==
    IF list = <<>> THEN q ELSE AddAll(SetAdd(q, Head(list)), Tail(list))

\* channels.forEach(ch => channelSet.delete(ch))
RECURSIVE DeleteAll(_, _)
DeleteAll(q, list) ==
    IF list = <<>> THEN q ELSE DeleteAll(SetDelete(q, Head(list)), Tail(list))

\* Map.get of a missing key, and a map entry that does not exist.
None == 0

NoSet == [has |-> FALSE, set |-> <<>>]

NewMap == [t \in Types |-> NoSet]

\* A manager built with reconnection switched off.
autoReconnectOff == FALSE

autoReconnect == TRUE

VARIABLES
    sockets,             \* every WebSocket created: [id, readyState, sent]
    connections,         \* connections: id -> socket or None
    timers,              \* every timer armed: [id, state]
    reconnectTimeouts,   \* reconnectTimeouts: id -> timer or None
    subscribedChannels,  \* subscribedChannels: id -> NoSet or a Set
    handlerMaps,         \* every inner Map created by onMessage
    messageHandlers,     \* messageHandlers: id -> inner Map or None
    tokens,              \* every cleanup closure returned by onMessage
    wants,               \* per consumer and id, the channels it subscribed
    released,            \* ids disconnected and not connected again since
    cleared,             \* ids disconnected, nothing subscribed or registered since
    server,              \* per id, the frames sent on its open recorded socket, replayed
    last                 \* the operation or event that produced this state

vars == <<sockets, connections, timers, reconnectTimeouts, subscribedChannels,
          handlerMaps, messageHandlers, tokens, wants, released,
          cleared, server, last>>

\* -------------------------------------------------------------- transport
\* WebSocket.close(): a socket that is CONNECTING or OPEN starts closing,
\* and its close event is delivered later; otherwise nothing happens.
wsClose(socks, s) ==
    IF socks[s].readyState \in {"CONNECTING", "OPEN"}
    THEN [socks EXCEPT ![s].readyState = "CLOSING"]
    ELSE socks

\* WebSocket.send(text) on an OPEN socket.  A socket that is not closed keeps
\* the number of frames sent on it, counted up to MaxFrames.
wsSend(socks, s) ==
    [socks EXCEPT ![s].sent = IF @ < MaxFrames THEN @ + 1 ELSE @]

\* A clearTimeout that cancels nothing.
clearTimeoutNothing(tms, t) == tms

\* clearTimeout(handle): a pending timer never fires; otherwise nothing.
clearTimeout(tms, t) ==
    IF tms[t].state = "pending" THEN [tms EXCEPT ![t].state = "cleared"] ELSE tms

\* ------------------------------------------------------------------ state
\* The part of the manager connect() reads and writes.
Mgr == [sockets |-> sockets, connections |-> connections,
        timers |-> timers, reconnectTimeouts |-> reconnectTimeouts]

isConnected(i) ==
    /\ connections[i] # None
    /\ sockets[connections[i]].readyState = "OPEN"

\* The four states of the specification, read off the manager's maps.
StateOf(i) ==
    IF connections[i] # None /\ sockets[connections[i]].readyState = "OPEN"
        THEN "CONNECTED"
    ELSE IF connections[i] # None
            /\ sockets[connections[i]].readyState = "CONNECTING"
        THEN "CONNECTING"
    ELSE IF reconnectTimeouts[i] # None
            /\ timers[reconnectTimeouts[i]].state = "pending"
        THEN "RECONNECT_PENDING"
    ELSE "DISCONNECTED"

Live(s) == sockets[s].readyState \in {"CONNECTING", "OPEN"}

LiveSockets(i) == {s \in 1..Len(sockets) : sockets[s].id = i /\ Live(s)}

PendingTimers(i) ==
    {t \in 1..Len(timers) : timers[t].id = i /\ timers[t].state = "pending"}

\* ---------------------------------------------------------------- connect
\* A guard that forgets the CONNECTING case.
connectReturnsEarlyOnlyWhenOpen(m, i) ==
    /\ m.connections[i] # None
    /\ m.sockets[m.connections[i]].readyState = "OPEN"

\* if (existing?.readyState === OPEN || existing?.readyState === CONNECTING)
connectReturnsEarly(m, i) ==
    /\ m.connections[i] # None
    /\ m.sockets[m.connections[i]].readyState \in {"OPEN", "CONNECTING"}

connect(m, i) ==
    IF connectReturnsEarly(m, i) THEN m
    ELSE
      LET existing == m.connections[i]
          socks1 == IF existing # None THEN wsClose(m.sockets, existing)
                    ELSE m.sockets
          timeout == m.reconnectTimeouts[i]
          tms1 == IF timeout # None THEN clearTimeout(m.timers, timeout)
                  ELSE m.timers
          ws == Len(socks1) + 1
      IN [sockets |-> Append(socks1,
                        [id |-> i, readyState |-> "CONNECTING", sent |-> 0]),
          connections |-> [m.connections EXCEPT ![i] = ws],
          timers |-> tms1,
          reconnectTimeouts |-> [m.reconnectTimeouts EXCEPT ![i] = None]]

\* connect(i) either returns early or creates a socket the bound allows.
CanConnect(i) == connectReturnsEarly(Mgr, i) \/ Len(sockets) < MaxSockets

SetMgr(m) ==
    /\ sockets' = m.sockets
    /\ connections' = m.connections
    /\ timers' = m.timers
    /\ reconnectTimeouts' = m.reconnectTimeouts

NoFrame == [sock |-> None, action |-> "", channels |-> <<>>]

Frame(s, action, chans) == [sock |-> s, action |-> action, channels |-> chans]

\* What the step did: the operation or event, its arguments, the state of
\* the id when it began, the frame it sent, and for an inbound frame the
\* handler invocations in order.
Did(op, i, chans, s, frame) ==
    last' = [op |-> op, id |-> i, pre |-> StateOf(i), chans |-> chans,
             sock |-> s, frame |-> frame, type |-> "", calls |-> <<>>,
             threw |-> FALSE]

\* What the peer of the recorded open socket of each id has been sent since
\* that socket opened; nothing for an id that is not connected.
KeepView ==
    server' = [j \in Ids |-> IF isConnected(j)' THEN server[j] ELSE {}]

Connect(i) ==
    /\ CanConnect(i)
    /\ SetMgr(connect(Mgr, i))
    /\ released' = [released EXCEPT ![i] = FALSE]
    /\ Did("connect", i, <<>>, None, NoFrame)
    /\ UNCHANGED <<subscribedChannels, handlerMaps, messageHandlers, tokens, wants,
                   cleared>>
    /\ KeepView

\* ------------------------------------------------------------- disconnect
\* A disconnect that empties the handler registry of every id
\* (messageHandlers.clear() for messageHandlers.delete(connectionId)).
DisconnectClearsAllHandlers(i) ==
    LET timeout == reconnectTimeouts[i]
        ws == connections[i]
    IN /\ timers' = IF timeout # None THEN clearTimeout(timers, timeout)
                    ELSE timers
       /\ reconnectTimeouts' = [reconnectTimeouts EXCEPT ![i] = None]
       /\ sockets' = IF ws # None THEN wsClose(sockets, ws) ELSE sockets
       /\ connections' = [connections EXCEPT ![i] = None]
       /\ messageHandlers' = [j \in Ids |-> None]
       /\ subscribedChannels' = [subscribedChannels EXCEPT ![i] = NoSet]
       /\ wants' = [c \in Consumers |-> [wants[c] EXCEPT ![i] = {}]]
       /\ released' = [released EXCEPT ![i] = TRUE]
       /\ cleared' = [cleared EXCEPT ![i] = TRUE]
       /\ Did("disconnect", i, <<>>, None, NoFrame)
       /\ UNCHANGED <<handlerMaps, tokens>>
       /\ KeepView

\* A disconnect that closes the connection but keeps the channel set and the
\* handlers of the id.
DisconnectKeepsIntent(i) ==
    LET timeout == reconnectTimeouts[i]
        ws == connections[i]
    IN /\ timers' = IF timeout # None THEN clearTimeout(timers, timeout)
                    ELSE timers
       /\ reconnectTimeouts' = [reconnectTimeouts EXCEPT ![i] = None]
       /\ sockets' = IF ws # None THEN wsClose(sockets, ws) ELSE sockets
       /\ connections' = [connections EXCEPT ![i] = None]
       /\ wants' = [c \in Consumers |-> [wants[c] EXCEPT ![i] = {}]]
       /\ released' = [released EXCEPT ![i] = TRUE]
       /\ cleared' = [cleared EXCEPT ![i] = TRUE]
       /\ Did("disconnect", i, <<>>, None, NoFrame)
       /\ UNCHANGED <<handlerMaps, tokens, messageHandlers, subscribedChannels>>
       /\ KeepView

Disconnect(i) ==
    LET timeout == reconnectTimeouts[i]
        ws == connections[i]
    IN /\ timers' = IF timeout # None THEN clearTimeout(timers, timeout)
                    ELSE timers
       /\ reconnectTimeouts' = [reconnectTimeouts EXCEPT ![i] = None]
       /\ sockets' = IF ws # None THEN wsClose(sockets, ws) ELSE sockets
       /\ connections' = [connections EXCEPT ![i] = None]
       /\ messageHandlers' = [messageHandlers EXCEPT ![i] = None]
       /\ subscribedChannels' = [subscribedChannels EXCEPT ![i] = NoSet]
       /\ wants' = [c \in Consumers |-> [wants[c] EXCEPT ![i] = {}]]
       /\ released' = [released EXCEPT ![i] = TRUE]
       /\ cleared' = [cleared EXCEPT ![i] = TRUE]
       /\ Did("disconnect", i, <<>>, None, NoFrame)
       /\ UNCHANGED <<handlerMaps, tokens>>
       /\ KeepView

\* --------------------------------------------------- subscribe, unsubscribe
\* A subscribe that sends on whatever socket is recorded, open or not.
SubscribeSendsUnchecked(i, chans) ==
    LET channelSet == [has |-> TRUE,
                       set |-> AddAll(subscribedChannels[i].set, chans)]
        ws == connections[i]
    IN /\ subscribedChannels' = [subscribedChannels EXCEPT ![i] = channelSet]
       /\ IF ws # None
          THEN /\ sockets' = wsSend(sockets, ws)
               /\ Did("subscribe", i, chans, None, Frame(ws, "subscribe", chans))
               /\ UNCHANGED <<connections, timers, reconnectTimeouts>>
          ELSE /\ CanConnect(i)
               /\ SetMgr(connect(Mgr, i))
               /\ Did("subscribe", i, chans, None, NoFrame)
       /\ released' = [released EXCEPT ![i] = FALSE]
       /\ cleared' = [cleared EXCEPT ![i] = FALSE]
       /\ UNCHANGED <<handlerMaps, messageHandlers, tokens>>
       /\ server' = [server EXCEPT ![i] = IF connections[i] # None
                                          THEN @ \cup Range(chans) ELSE {}]

\* A subscribe that records the channels and waits for somebody to connect.
SubscribeNoConnect(i, chans) ==
    LET channelSet == [has |-> TRUE,
                       set |-> AddAll(subscribedChannels[i].set, chans)]
        ws == connections[i]
    IN /\ subscribedChannels' = [subscribedChannels EXCEPT ![i] = channelSet]
       /\ IF ws # None /\ sockets[ws].readyState = "OPEN"
          THEN /\ sockets' = wsSend(sockets, ws)
               /\ Did("subscribe", i, chans, None, Frame(ws, "subscribe", chans))
          ELSE /\ UNCHANGED sockets
               /\ Did("subscribe", i, chans, None, NoFrame)
       /\ released' = [released EXCEPT ![i] = FALSE]
       /\ cleared' = [cleared EXCEPT ![i] = FALSE]
       /\ UNCHANGED <<connections, timers, reconnectTimeouts, handlerMaps,
                      messageHandlers, tokens>>
       /\ server' = [server EXCEPT ![i] = IF isConnected(i) THEN @ \cup Range(chans)
                                          ELSE {}]

Subscribe(i, chans) ==
    LET channelSet == [has |-> TRUE,
                       set |-> AddAll(subscribedChannels[i].set, chans)]
        ws == connections[i]
    IN /\ subscribedChannels' = [subscribedChannels EXCEPT ![i] = channelSet]
       /\ IF ws # None /\ sockets[ws].readyState = "OPEN"
          THEN /\ sockets' = wsSend(sockets, ws)
               /\ Did("subscribe", i, chans, None, Frame(ws, "subscribe", chans))
               /\ UNCHANGED <<connections, timers, reconnectTimeouts>>
          ELSE /\ CanConnect(i)
               /\ SetMgr(connect(Mgr, i))
               /\ Did("subscribe", i, chans, None, NoFrame)
       /\ released' = [released EXCEPT ![i] = FALSE]
       /\ cleared' = [cleared EXCEPT ![i] = FALSE]
       /\ UNCHANGED <<handlerMaps, messageHandlers, tokens>>
       /\ server' = [server EXCEPT ![i] = IF isConnected(i) THEN @ \cup Range(chans)
                                          ELSE {}]

\* An unsubscribe that forgets the channels without telling the peer.
UnsubscribeLocalOnly(i, chans) ==
    LET channelSet == subscribedChannels[i]
    IN /\ subscribedChannels' =
            IF channelSet.has
            THEN [subscribedChannels EXCEPT ![i].set = DeleteAll(@, chans)]
            ELSE subscribedChannels
       /\ Did("unsubscribe", i, chans, None, NoFrame)
       /\ UNCHANGED <<sockets, connections, timers, reconnectTimeouts,
                      handlerMaps, messageHandlers, tokens, released, cleared,
                      server>>

\* An unsubscribe that makes the channel set of an id that has none.
UnsubscribeCreatesSet(i, chans) ==
    LET ws == connections[i]
    IN /\ subscribedChannels' =
            [subscribedChannels EXCEPT
                ![i] = [has |-> TRUE, set |-> DeleteAll(@.set, chans)]]
       /\ IF ws # None /\ sockets[ws].readyState = "OPEN"
          THEN /\ sockets' = wsSend(sockets, ws)
               /\ Did("unsubscribe", i, chans, None,
                      Frame(ws, "unsubscribe", chans))
          ELSE /\ UNCHANGED sockets
               /\ Did("unsubscribe", i, chans, None, NoFrame)
       /\ UNCHANGED <<connections, timers, reconnectTimeouts, handlerMaps,
                      messageHandlers, tokens, released, cleared>>
       /\ server' = [server EXCEPT ![i] = IF isConnected(i) THEN @ \ Range(chans)
                                          ELSE {}]

\* An unsubscribe that closes the connection once no channel is left.
UnsubscribeClosesWhenEmpty(i, chans) ==
    LET channelSet == subscribedChannels[i]
        ws == connections[i]
        left == DeleteAll(channelSet.set, chans)
        sent == IF ws # None /\ sockets[ws].readyState = "OPEN"
                THEN wsSend(sockets, ws) ELSE sockets
    IN /\ subscribedChannels' =
            IF channelSet.has
            THEN [subscribedChannels EXCEPT ![i].set = left]
            ELSE subscribedChannels
       /\ sockets' = IF ws # None /\ left = <<>> THEN wsClose(sent, ws) ELSE sent
       /\ connections' = IF left = <<>> THEN [connections EXCEPT ![i] = None]
                         ELSE connections
       /\ IF ws # None /\ sockets[ws].readyState = "OPEN"
          THEN Did("unsubscribe", i, chans, None, Frame(ws, "unsubscribe", chans))
          ELSE Did("unsubscribe", i, chans, None, NoFrame)
       /\ UNCHANGED <<timers, reconnectTimeouts, handlerMaps,
                      messageHandlers, tokens, released, cleared>>
       /\ KeepView

Unsubscribe(i, chans) ==
    LET channelSet == subscribedChannels[i]
        ws == connections[i]
    IN /\ subscribedChannels' =
            IF channelSet.has
            THEN [subscribedChannels EXCEPT ![i].set = DeleteAll(@, chans)]
            ELSE subscribedChannels
       /\ IF ws # None /\ sockets[ws].readyState = "OPEN"
          THEN /\ sockets' = wsSend(sockets, ws)
               /\ Did("unsubscribe", i, chans, None,
                      Frame(ws, "unsubscribe", chans))
          ELSE /\ UNCHANGED sockets
               /\ Did("unsubscribe", i, chans, None, NoFrame)
       /\ UNCHANGED <<connections, timers, reconnectTimeouts, handlerMaps,
                      messageHandlers, tokens, released, cleared>>
       /\ server' = [server EXCEPT ![i] = IF isConnected(i) THEN @ \ Range(chans)
                                          ELSE {}]

\* A component of the application (a consumer) subscribing to, and later
\* unsubscribing from, channels of a feed it shares with other components,
\* as the useWebSocket hook does when the component mounts and unmounts.
\* wants records the channels each component has asked for and not given up;
\* a component unsubscribes only from channels it has subscribed to.
ConsumerSubscribe(c, i, chans) ==
    /\ Subscribe(i, chans)
    /\ wants' = [wants EXCEPT ![c][i] = @ \cup Range(chans)]

ConsumerUnsubscribe(c, i, chans) ==
    /\ Range(chans) \subseteq wants[c][i]
    /\ Unsubscribe(i, chans)
    /\ wants' = [wants EXCEPT ![c][i] = @ \ Range(chans)]

\* ------------------------------------------------------- transport events
\* An onopen that does not send the requested channels again.
onopenFrameNothing(s, channels) == NoFrame

\* The frame ws.onopen sends: the channels requested so far, if any.
onopenFrame(s, channels) ==
    IF channels.has /\ Len(channels.set) > 0
    THEN Frame(s, "subscribe", channels.set)
    ELSE NoFrame

\* ws.onopen
SocketOpen(s) ==
    LET i == sockets[s].id
        frame == onopenFrame(s, subscribedChannels[i])
        opened == [sockets EXCEPT ![s].readyState = "OPEN"]
    IN /\ sockets[s].readyState = "CONNECTING"
       /\ connections' = [connections EXCEPT ![i] = s]
       /\ sockets' = IF frame # NoFrame THEN wsSend(opened, s) ELSE opened
       /\ Did("open", i, <<>>, s, frame)
       /\ UNCHANGED <<timers, reconnectTimeouts, subscribedChannels,
                      handlerMaps, messageHandlers, tokens, wants, released, cleared>>
       /\ server' = [server EXCEPT ![i] = Range(frame.channels)]

\* The peer starts the closing handshake of an open socket: readyState is
\* CLOSING until the close event.
SocketClosing(s) ==
    /\ sockets[s].readyState = "OPEN"
    /\ sockets' = [sockets EXCEPT ![s].readyState = "CLOSING"]
    /\ Did("closing", sockets[s].id, <<>>, s, NoFrame)
    /\ UNCHANGED <<connections, timers, reconnectTimeouts, subscribedChannels,
                   handlerMaps, messageHandlers, tokens, wants, released, cleared>>
    /\ KeepView

\* An onerror that does what onclose does.
SocketErrorReconnects(s) ==
    LET i == sockets[s].id
    IN /\ sockets[s].readyState \in {"CONNECTING", "OPEN", "CLOSING"}
       /\ Len(timers) < MaxTimers
       /\ connections' = [connections EXCEPT ![i] = None]
       /\ timers' = Append(timers, [id |-> i, state |-> "pending"])
       /\ reconnectTimeouts' = [reconnectTimeouts EXCEPT ![i] = Len(timers) + 1]
       /\ Did("error", i, <<>>, None, NoFrame)
       /\ UNCHANGED <<sockets, subscribedChannels, handlerMaps, messageHandlers,
                      tokens, wants, released, cleared>>
       /\ KeepView

\* ws.onerror: console.error, nothing else.
SocketError(s) ==
    /\ sockets[s].readyState \in {"CONNECTING", "OPEN", "CLOSING"}
    /\ Did("error", sockets[s].id, <<>>, None, NoFrame)
    /\ UNCHANGED <<sockets, connections, timers, reconnectTimeouts,
                   subscribedChannels, handlerMaps, messageHandlers, tokens,
                   wants, released, cleared>>
    /\ KeepView

\* An onclose that also drops the channels and handlers of the id.
SocketCloseForgets(s) ==
    LET i == sockets[s].id
    IN /\ sockets[s].readyState \in {"CONNECTING", "OPEN", "CLOSING"}
       /\ sockets' = [sockets EXCEPT ![s].readyState = "CLOSED", ![s].sent = 0]
       /\ connections' = [connections EXCEPT ![i] = None]
       /\ Len(timers) < MaxTimers
       /\ timers' = Append(timers, [id |-> i, state |-> "pending"])
       /\ reconnectTimeouts' = [reconnectTimeouts EXCEPT ![i] = Len(timers) + 1]
       /\ subscribedChannels' = [subscribedChannels EXCEPT ![i] = NoSet]
       /\ messageHandlers' = [messageHandlers EXCEPT ![i] = None]
       /\ Did("close", i, <<>>, s, NoFrame)
       /\ UNCHANGED <<handlerMaps, tokens, wants, released, cleared>>
       /\ KeepView

\* ws.onclose
SocketClose(s) ==
    LET i == sockets[s].id
    IN /\ sockets[s].readyState \in {"CONNECTING", "OPEN", "CLOSING"}
       /\ sockets' = [sockets EXCEPT ![s].readyState = "CLOSED", ![s].sent = 0]
       /\ connections' = [connections EXCEPT ![i] = None]
       /\ IF autoReconnect
          THEN /\ Len(timers) < MaxTimers
               /\ timers' = Append(timers, [id |-> i, state |-> "pending"])
               /\ reconnectTimeouts' =
                      [reconnectTimeouts EXCEPT ![i] = Len(timers) + 1]
          ELSE UNCHANGED <<timers, reconnectTimeouts>>
       /\ Did("close", i, <<>>, s, NoFrame)
       /\ UNCHANGED <<subscribedChannels, handlerMaps, messageHandlers,
                      tokens, wants, released, cleared>>
       /\ KeepView

\* The setTimeout callback armed by ws.onclose: this.connect(connectionId)
TimerFire(t) ==
    LET i == timers[t].id
        fired == [Mgr EXCEPT !.timers[t].state = "fired"]
    IN /\ timers[t].state = "pending"
       /\ connectReturnsEarly(fired, i) \/ Len(sockets) < MaxSockets
       /\ SetMgr(connect(fired, i))
       /\ Did("timer", i, <<>>, None, NoFrame)
       /\ UNCHANGED <<subscribedChannels, handlerMaps, messageHandlers,
                      tokens, wants, released, cleared>>
       /\ KeepView

\* ------------------------------------------------------ onMessage, cleanup
\* onMessage(connectionId, type, handler) and the cleanup closure it returns.
\* The closure keeps the inner Map it was given (handlers), the type and the
\* handler: tokens[k] is the k-th closure returned.  used records that the
\* closure has been invoked.
OnMessage(i, type, h) ==
    LET fresh == messageHandlers[i] = None
        hm == IF fresh THEN Len(handlerMaps) + 1 ELSE messageHandlers[i]
        maps1 == IF fresh THEN Append(handlerMaps, NewMap) ELSE handlerMaps
    IN /\ Len(tokens) < MaxTokens
       /\ fresh => Len(handlerMaps) < MaxMaps
       /\ messageHandlers' = [messageHandlers EXCEPT ![i] = hm]
       /\ handlerMaps' =
            [maps1 EXCEPT ![hm][type] = [has |-> TRUE, set |-> SetAdd(@.set, h)]]
       /\ tokens' = Append(tokens, [map |-> hm, type |-> type, handler |-> h,
                                    id |-> i, used |-> FALSE])
       /\ Did("onMessage", i, <<>>, Len(tokens) + 1, NoFrame)
       /\ cleared' = [cleared EXCEPT ![i] = FALSE]
       /\ UNCHANGED <<sockets, connections, timers, reconnectTimeouts,
                      subscribedChannels, wants, released>>
       /\ KeepView

cleanup(maps, tok) ==
    IF maps[tok.map][tok.type].has
    THEN [maps EXCEPT ![tok.map][tok.type].set = SetDelete(@, tok.handler)]
    ELSE maps

\* last.type tells a first invocation of the closure from a later one.
InvokeToken(k) ==
    /\ handlerMaps' = cleanup(handlerMaps, tokens[k])
    /\ tokens' = [tokens EXCEPT ![k].used = TRUE]
    /\ last' = [op |-> "cleanup", id |-> tokens[k].id, pre |-> StateOf(tokens[k].id),
                chans |-> <<>>, sock |-> k, frame |-> NoFrame,
                type |-> IF tokens[k].used THEN "again" ELSE "first",
                calls |-> <<>>, threw |-> FALSE]
    /\ UNCHANGED <<sockets, connections, timers, reconnectTimeouts,
                   subscribedChannels, messageHandlers, wants, released, cleared>>
    /\ KeepView

\* --------------------------------------------------------------- dispatch
\* set.forEach(handler => handler(message)): the handlers of a Set are called
\* in insertion order; one that throws ends the loop.
forEach(key, q, throwers) ==
    LET bad == {k \in 1..Len(q) : q[k] \in throwers}
        n == IF bad = {} THEN Len(q)
             ELSE CHOOSE k \in bad : \A j \in bad : k <= j
    IN [k \in 1..n |-> [key |-> key, handler |-> q[k]]]

Throws(q, throwers) == \E k \in 1..Len(q) : q[k] \in throwers

\* A dispatch that serves the wildcard handlers first.
dispatchAllFirst(handlers, type, throwers) ==
    IF handlers = None THEN [calls |-> <<>>, threw |-> FALSE]
    ELSE LET typeHandlers == handlerMaps[handlers][type]
             allHandlers == handlerMaps[handlers]["all"]
             allCalls == IF allHandlers.has
                         THEN forEach("all", allHandlers.set, throwers)
                         ELSE <<>>
             allThrew == allHandlers.has /\ Throws(allHandlers.set, throwers)
         IN IF allThrew THEN [calls |-> allCalls, threw |-> TRUE]
            ELSE IF typeHandlers.has
            THEN [calls |-> allCalls \o forEach(type, typeHandlers.set, throwers),
                  threw |-> Throws(typeHandlers.set, throwers)]
            ELSE [calls |-> allCalls, threw |-> FALSE]

\* The body of ws.onmessage after JSON.parse: the calls made, in order, and
\* whether the catch block was entered.
dispatch(handlers, type, throwers) ==
    IF handlers = None THEN [calls |-> <<>>, threw |-> FALSE]
    ELSE LET typeHandlers == handlerMaps[handlers][type]
             allHandlers == handlerMaps[handlers]["all"]
             typeCalls == IF typeHandlers.has
                          THEN forEach(type, typeHandlers.set, throwers)
                          ELSE <<>>
             typeThrew == typeHandlers.has /\ Throws(typeHandlers.set, throwers)
         IN IF typeThrew THEN [calls |-> typeCalls, threw |-> TRUE]
            ELSE IF allHandlers.has
            THEN [calls |-> typeCalls \o forEach("all", allHandlers.set, throwers),
                  threw |-> Throws(allHandlers.set, throwers)]
            ELSE [calls |-> typeCalls, threw |-> FALSE]

\* An onmessage that hands a frame it cannot parse to the wildcard handlers.
onmessageRawToAll(handlers, type, throwers) ==
    dispatch(handlers, IF type = "malformed" THEN "all" ELSE type, throwers)

\* The try block of ws.onmessage: JSON.parse throws on a malformed frame, the
\* catch block logs, and no handler has been called.
onmessage(handlers, type, throwers) ==
    IF type = "malformed" THEN [calls |-> <<>>, threw |-> FALSE]
    ELSE dispatch(handlers, type, throwers)

\* ws.onmessage for a frame that parses to a message of the given type, or
\* for one that JSON.parse rejects ("malformed").
SocketMessage(s, type, throwers) ==
    LET i == sockets[s].id
        d == onmessage(messageHandlers[i], type, throwers)
    IN /\ sockets[s].readyState = "OPEN"
       /\ last' = [op |-> "message", id |-> i, pre |-> StateOf(i),
                   chans |-> <<>>, sock |-> s, frame |-> NoFrame,
                   type |-> type, calls |-> d.calls, threw |-> d.threw]
       /\ UNCHANGED <<sockets, connections, timers, reconnectTimeouts,
                      subscribedChannels, handlerMaps, messageHandlers, tokens,
                      wants, released, cleared>>
       /\ KeepView

\* isConnected(connectionId): last.type records the answer.
IsConnected(i) ==
    /\ last' = [op |-> "isConnected", id |-> i, pre |-> StateOf(i),
                chans |-> <<>>, sock |-> None, frame |-> NoFrame,
                type |-> IF isConnected(i) THEN "true" ELSE "false",
                calls |-> <<>>, threw |-> FALSE]
    /\ UNCHANGED <<sockets, connections, timers, reconnectTimeouts,
                   subscribedChannels, handlerMaps, messageHandlers, tokens,
                   wants, released, cleared>>
    /\ KeepView

\* ------------------------------------------------------------ specification
Init ==
    /\ sockets = <<>>
    /\ connections = [i \in Ids |-> None]
    /\ timers = <<>>
    /\ reconnectTimeouts = [i \in Ids |-> None]
    /\ subscribedChannels = [i \in Ids |-> NoSet]
    /\ handlerMaps = <<>>
    /\ messageHandlers = [i \in Ids |-> None]
    /\ tokens = <<>>
    /\ wants = [c \in Consumers |-> [i \in Ids |-> {}]]
    /\ released = [i \in Ids |-> FALSE]
    /\ cleared = [i \in Ids |-> FALSE]
    /\ server = [i \in Ids |-> {}]
    /\ last = [op |-> "init", id |-> None, pre |-> "DISCONNECTED",
               chans |-> <<>>, sock |-> None, frame |-> NoFrame, type |-> "",
               calls |-> <<>>, threw |-> FALSE]

\* One feed, any number of components: every consumer call and transport
\* event of the connection life cycle and of the channel subscriptions that
\* changes something (an error event, which only logs, is in NextRecovery).
Feed == {1}

Next ==
    \/ \E i \in Feed : Connect(i)
    \/ \E i \in Feed : Disconnect(i)
    \/ \E i \in Feed, chans \in ChannelLists :
          Subscribe(i, chans) /\ UNCHANGED wants
    \/ \E i \in Feed, chans \in ChannelLists :
          Unsubscribe(i, chans) /\ UNCHANGED wants
    \/ \E s \in 1..Len(sockets) : SocketOpen(s)
    \/ \E s \in 1..Len(sockets) : SocketClosing(s)
    \/ \E s \in 1..Len(sockets) : SocketClose(s)
    \/ \E t \in 1..Len(timers) : TimerFire(t)

Spec == Init /\ [][Next]_vars

\* The handler registry and inbound dispatch of one feed.
NextDispatch ==
    \/ \E i \in Feed : Connect(i)
    \/ \E i \in Feed : Disconnect(i)
    \/ \E i \in Feed, type \in Types, h \in Callbacks : OnMessage(i, type, h)
    \/ \E k \in 1..Len(tokens) : InvokeToken(k)
    \/ \E s \in 1..Len(sockets) : SocketOpen(s)
    \/ \E s \in 1..Len(sockets), type \in Types \cup {"malformed"},
          throwers \in SUBSET Callbacks : SocketMessage(s, type, throwers)

SpecDispatch == Init /\ [][NextDispatch]_vars

\* Several components sharing the channels of one feed.
NextSharing ==
    \/ \E i \in Feed : Connect(i)
    \/ \E i \in Feed : Disconnect(i)
    \/ \E c \in Consumers, i \in Feed, chans \in ChannelLists :
          ConsumerSubscribe(c, i, chans)
    \/ \E c \in Consumers, i \in Feed, chans \in ChannelLists :
          ConsumerUnsubscribe(c, i, chans)
    \/ \E s \in 1..Len(sockets) : SocketOpen(s)

SpecSharing == Init /\ [][NextSharing]_vars

\* What a feed has been asked for (channels and handlers) across the life
\* cycle of its connection: forced closes, reconnections and disconnect.
NextIntent ==
    \/ \E i \in Feed : Connect(i)
    \/ \E i \in Feed : Disconnect(i)
    \/ \E i \in Feed : Subscribe(i, <<"x">>) /\ UNCHANGED wants
    \/ \E i \in Feed : OnMessage(i, "trade_event", "h1")
    \/ \E s \in 1..Len(sockets) : SocketOpen(s)
    \/ \E s \in 1..Len(sockets) : SocketClose(s)
    \/ \E t \in 1..Len(timers) : TimerFire(t)
    \/ \E s \in 1..Len(sockets) : SocketMessage(s, "trade_event", {})

SpecIntent == Init /\ [][NextIntent]_vars

\* A feed with a channel and a handler that nobody disconnects: every call
\* and event other than disconnect, unsubscribe and the cleanup token.
NextSurvive ==
    \/ \E i \in Feed : Connect(i)
    \/ \E i \in Feed : Subscribe(i, <<"x">>) /\ UNCHANGED wants
    \/ \E i \in Feed : OnMessage(i, "trade_event", "h1")
    \/ \E i \in Feed : IsConnected(i)
    \/ \E s \in 1..Len(sockets) : SocketOpen(s)
    \/ \E s \in 1..Len(sockets) : SocketClosing(s)
    \/ \E s \in 1..Len(sockets) : SocketError(s)
    \/ \E s \in 1..Len(sockets) : SocketClose(s)
    \/ \E t \in 1..Len(timers) : TimerFire(t)
    \/ \E s \in 1..Len(sockets) : SocketMessage(s, "trade_event", {})

SpecSurvive == Init /\ [][NextSurvive]_vars

\* A feed nobody disconnects: its transports fail to open or are closed by
\* the peer, and the timers armed by onclose fire.  A timer armed with
\* setTimeout is run by the event loop once its delay has passed, which is
\* weak fairness of each timer callback.
setTimeoutCallback(t) == t \in 1..Len(timers) /\ TimerFire(t)

NextRecovery ==
    \/ \E i \in Feed : Connect(i)
    \/ \E i \in Feed : Subscribe(i, <<"x">>) /\ UNCHANGED wants
    \/ \E s \in 1..Len(sockets) : SocketOpen(s)
    \/ \E s \in 1..Len(sockets) : SocketClosing(s)
    \/ \E s \in 1..Len(sockets) : SocketError(s)
    \/ \E s \in 1..Len(sockets) : SocketClose(s)
    \/ \E t \in 1..Len(timers) : TimerFire(t)

SpecRecovery ==
    /\ Init
    /\ [][NextRecovery]_vars
    /\ \A t \in 1..MaxTimers : WF_vars(setTimeoutCallback(t))

\* The channel subscriptions of one feed whose transports open, fail and are
\* reconnected.
NextChannels ==
    \/ \E i \in Feed : Connect(i)
    \/ \E i \in Feed : Disconnect(i)
    \/ \E i \in Feed, chans \in ChannelLists :
          Subscribe(i, chans) /\ UNCHANGED wants
    \/ \E i \in Feed, chans \in ChannelLists :
          Unsubscribe(i, chans) /\ UNCHANGED wants
    \/ \E s \in 1..Len(sockets) : SocketOpen(s)
    \/ \E s \in 1..Len(sockets) : SocketClose(s)
    \/ \E t \in 1..Len(timers) : TimerFire(t)

SpecChannels == Init /\ [][NextChannels]_vars

\* Inbound frames, well-formed or not, on a feed that has a channel, handlers
\* and transports that fail and are reconnected.
NextFrames ==
    \/ \E i \in Feed : Subscribe(i, <<"x">>) /\ UNCHANGED wants
    \/ \E i \in Feed, type \in Types, h \in Callbacks : OnMessage(i, type, h)
    \/ \E s \in 1..Len(sockets) : SocketOpen(s)
    \/ \E s \in 1..Len(sockets) : SocketClose(s)
    \/ \E t \in 1..Len(timers) : TimerFire(t)
    \/ \E s \in 1..Len(sockets), type \in Types \cup {"malformed"},
          throwers \in SUBSET Callbacks : SocketMessage(s, type, throwers)

SpecFrames == Init /\ [][NextFrames]_vars

\* An id the manager holds nothing for: no socket, timer, record, channel
\* set or handler registry.
Unknown(i) ==
    /\ \A s \in 1..Len(sockets) : sockets[s].id # i
    /\ \A t \in 1..Len(timers) : timers[t].id # i
    /\ connections[i] = None
    /\ reconnectTimeouts[i] = None
    /\ subscribedChannels[i] = NoSet
    /\ messageHandlers[i] = None

\* Two feeds side by side.  Feed 2 is subscribed, given a handler of its own
\* and opened before feed 1 is first used; from then on feed 1 goes through
\* every call and event, while feed 2 receives frames and may lose its
\* transport, its reconnect delay outlasting the run.
Other == 2

HandlerOf(i) == IF i = Other THEN "h2" ELSE "h1"

\* Feed 2 has its channel, its handler and has been opened.
OtherSetUp ==
    /\ subscribedChannels[Other].has
    /\ messageHandlers[Other] # None
    /\ \E s \in 1..Len(sockets) :
          sockets[s].id = Other /\ sockets[s].readyState # "CONNECTING"

NextPair ==
    \/ \E i \in Feed : OtherSetUp /\ Connect(i)
    \/ \E i \in Feed : OtherSetUp /\ Disconnect(i)
    \/ \E i \in Feed : OtherSetUp /\ Subscribe(i, <<"x">>) /\ UNCHANGED wants
    \/ \E i \in Feed : OtherSetUp /\ Unsubscribe(i, <<"x">>) /\ UNCHANGED wants
    \/ \E i \in Feed : OtherSetUp /\ OnMessage(i, "trade_event", HandlerOf(i))
    \/ ~OtherSetUp /\ Subscribe(Other, <<"x">>) /\ UNCHANGED wants
    \/ ~OtherSetUp /\ OnMessage(Other, "trade_event", HandlerOf(Other))
    \/ \E s \in 1..Len(sockets) : SocketOpen(s)
    \/ \E s \in 1..Len(sockets) : SocketClose(s)
    \/ \E t \in 1..Len(timers) : timers[t].id \in Feed /\ TimerFire(t)
    \/ \E s \in 1..Len(sockets) : SocketMessage(s, "trade_event", {})

SpecPair == Init /\ [][NextPair]_vars

\* ------------------------------------------------------------------ claims
Registry(i) == IF messageHandlers[i] = None THEN NewMap
               ELSE handlerMaps[messageHandlers[i]]

Invoked == {last.calls[k].handler : k \in 1..Len(last.calls)}

\* C1: in every reachable state each connection id has at most one socket
\* that is CONNECTING or OPEN.
C1_AtMostOneLiveSocket ==
    \A i \in Ids : Cardinality(LiveSockets(i)) <= 1

\* C2: once disconnect(id) has returned and until a consumer calls
\* connect(id) or subscribe(id, ...) again, the id is DISCONNECTED: no
\* reconnect timer is armed for it and no socket is recorded for it.
C2_DisconnectIsTerminal ==
    \A i \in Ids :
        released[i] => /\ StateOf(i) = "DISCONNECTED"
                       /\ PendingTimers(i) = {}
                       /\ connections[i] = None

\* C3: connect(id) called while the id is CONNECTING or CONNECTED opens no
\* socket, closes nothing, sends no frame and leaves the connection record,
\* the timers, the subscribed channels and the handlers as they were.
C3_ConnectWhileLiveIsNoOp ==
    [][(last'.op = "connect" /\ last'.pre \in {"CONNECTING", "CONNECTED"})
         => /\ UNCHANGED <<sockets, connections, timers, reconnectTimeouts,
                           subscribedChannels, handlerMaps, messageHandlers,
                           tokens>>
            /\ last'.frame = NoFrame]_vars

\* connect(id) has just been called on an id that was CONNECTING and already
\* had channels requested.
C3_Witness ==
    /\ last.op = "connect"
    /\ last.pre = "CONNECTING"
    /\ subscribedChannels[last.id].set # <<>>

\* C4: when a socket opens, the only frame sent on it so far is one subscribe
\* frame listing exactly the channels subscribed for its id at that moment,
\* each once, if there are any, and no frame at all otherwise.
C4_OpenSendsSubscribedChannels ==
    last.op = "open" =>
        LET s == last.sock
            channelSet == subscribedChannels[last.id]
        IN IF channelSet.has /\ channelSet.set # <<>>
           THEN /\ last.frame.sock = s
                /\ last.frame.action = "subscribe"
                /\ Range(last.frame.channels) = Range(channelSet.set)
                /\ Len(last.frame.channels) = Cardinality(Range(channelSet.set))
                /\ sockets[s].sent = 1
           ELSE /\ last.frame = NoFrame
                /\ sockets[s].sent = 0

\* A socket has just opened after an earlier socket of the same id was
\* closed and the reconnect timer fired; both channels are sent again.
C4_Witness ==
    /\ last.op = "open"
    /\ Range(last.frame.channels) = Channels
    /\ \E s \in 1..Len(sockets) :
          /\ s < last.sock
          /\ sockets[s].id = last.id
          /\ sockets[s].readyState = "CLOSED"
    /\ \E t \in 1..Len(timers) :
          timers[t].id = last.id /\ timers[t].state = "fired"

\* C5: a channel that some consumer has subscribed to and not unsubscribed
\* from is still in the subscribed channels of the id, and no unsubscribe
\* frame naming it has just been sent.
C5_ChannelStaysWhileWanted ==
    \A i \in Ids, ch \in Channels :
        (\E c \in Consumers : ch \in wants[c][i]) =>
            /\ ch \in Range(subscribedChannels[i].set)
            /\ ~(/\ last.op = "unsubscribe"
                 /\ last.id = i
                 /\ last.frame # NoFrame
                 /\ ch \in Range(last.frame.channels))

\* C6: a subscribe call for a non-empty list made while the id is CONNECTED
\* sends only the channels that were not yet in the subscribed channels, and
\* sends no frame when all of them were already there.
C6_SubscribeSendsOnlyNewChannels ==
    [][(last'.op = "subscribe" /\ last'.pre = "CONNECTED" /\ last'.chans # <<>>)
         => LET new == Range(last'.chans)
                         \ Range(subscribedChannels[last'.id].set)
            IN IF new = {} THEN last'.frame = NoFrame
               ELSE Range(last'.frame.channels) = new]_vars

\* C7: for a frame that parses to a message of type T, the handlers invoked
\* are exactly those registered on the id under T together with those
\* registered under "all".
C7_DispatchTypeAndWildcard ==
    (last.op = "message" /\ last.type # "malformed") =>
        Invoked = Range(Registry(last.id)[last.type].set)
                    \cup Range(Registry(last.id)["all"].set)

\* C8: for one inbound frame no registered handler is invoked twice,
\* whatever the type of the frame, "all" included.
C8_NoHandlerInvokedTwice ==
    last.op = "message" =>
        \A j, k \in 1..Len(last.calls) : j # k => last.calls[j] # last.calls[k]

\* C9: a registration whose token has not been invoked, on the registry the
\* id still has, is invoked for a matching frame, whatever other tokens for
\* the same id and type have been invoked.
C9_OtherRegistrationsStayActive ==
    (last.op = "message" /\ last.type # "malformed" /\ ~last.threw) =>
        \A k \in 1..Len(tokens) :
            (/\ tokens[k].id = last.id
             /\ tokens[k].map = messageHandlers[last.id]
             /\ tokens[k].type \in {last.type, "all"}
             /\ ~tokens[k].used) => tokens[k].handler \in Invoked

\* C10: invoking a de-registration token that has been invoked before
\* changes no handler registry.
C10_SecondCleanupChangesNothing ==
    [][(last'.op = "cleanup" /\ last'.type = "again")
         => handlerMaps' = handlerMaps]_vars

\* Registrations of callback h under the given type on the registry the id
\* has now, whose tokens have not been invoked.
Registrations(i, type, h) ==
    {k \in 1..Len(tokens) : /\ tokens[k].id = i
                            /\ tokens[k].map = messageHandlers[i]
                            /\ tokens[k].type = type
                            /\ tokens[k].handler = h
                            /\ ~tokens[k].used}

UsedTokens(i, type, h) ==
    {k \in 1..Len(tokens) : /\ tokens[k].id = i
                            /\ tokens[k].map = messageHandlers[i]
                            /\ tokens[k].type = type
                            /\ tokens[k].handler = h
                            /\ tokens[k].used}

\* C11: a callback registered k times under one (id, type), none of these
\* registrations de-registered, is invoked k times as a handler of that
\* type for each frame of that type.
C11_EveryRegistrationInvoked ==
    (last.op = "message" /\ last.type \notin {"malformed", "all"} /\ ~last.threw) =>
        \A h \in Callbacks :
            UsedTokens(last.id, last.type, h) = {} =>
                Cardinality({j \in 1..Len(last.calls) :
                               last.calls[j] = [key |-> last.type, handler |-> h]})
                  = Cardinality(Registrations(last.id, last.type, h))

\* C12: once disconnect(id) has been called, and until something is
\* subscribed or registered again, a transport of the id that opens sends no
\* subscribe frame and an inbound frame invokes no handler: the channels and
\* the handlers of before the disconnect are gone.
C12_DisconnectClearsIntent ==
    /\ (last.op = "open" /\ cleared[last.id]) => last.frame = NoFrame
    /\ (last.op = "message" /\ cleared[last.id]) => last.calls = <<>>

\* A frame arrives on a connection made after the disconnect; a handler had
\* been registered and a subscribe frame sent on an earlier connection.
C12_Witness ==
    /\ last.op = "message"
    /\ cleared[last.id]
    /\ \E k \in 1..Len(tokens) :
          tokens[k].id = last.id /\ tokens[k].type = last.type
    /\ sockets[last.sock].sent = 0
    /\ \E s \in 1..(last.sock - 1) :
          sockets[s].id = last.id /\ sockets[s].sent > 0

\* C13: when disconnect(id) returns, whatever the state it was called in, no
\* reconnect timer of the id is pending, no transport is recorded for the id,
\* the id has neither a channel set nor a handler registry, and isConnected
\* answers false.
C13_DisconnectLeavesNothing ==
    last.op = "disconnect" =>
        /\ PendingTimers(last.id) = {}
        /\ reconnectTimeouts[last.id] = None
        /\ connections[last.id] = None
        /\ ~subscribedChannels[last.id].has
        /\ messageHandlers[last.id] = None
        /\ ~isConnected(last.id)

\* C14: a reconnect timer of an id is pending only while the id is
\* RECONNECT_PENDING: never while a transport of the id is CONNECTING or
\* OPEN, and never while the id is DISCONNECTED after a disconnect.
C14_TimerOnlyWhileReconnectPending ==
    \A i \in Ids :
        PendingTimers(i) # {} =>
            /\ StateOf(i) = "RECONNECT_PENDING"
            /\ LiveSockets(i) = {}
            /\ ~released[i]

\* C15: an error event delivered for an id that is CONNECTING or CONNECTED
\* moves the id to RECONNECT_PENDING with a timer armed, as a close event
\* does.
C15_ErrorMovesToReconnectPending ==
    (last.op = "error" /\ last.pre \in {"CONNECTING", "CONNECTED"}) =>
        /\ StateOf(last.id) = "RECONNECT_PENDING"
        /\ PendingTimers(last.id) # {}

\* C15, as the code has it: an error event changes nothing (it is logged and
\* nothing is raised); the close event delivered for an id that is
\* CONNECTING or CONNECTED is what moves the id to RECONNECT_PENDING with a
\* timer armed.
C15_ErrorOnlyLogsCloseReconnects ==
    [][/\ last'.op = "error" =>
            UNCHANGED <<sockets, connections, timers, reconnectTimeouts,
                        subscribedChannels, handlerMaps, messageHandlers, tokens>>
       /\ \A i \in Ids :
            (/\ last'.op = "close"
             /\ last'.id = i
             /\ last'.pre \in {"CONNECTING", "CONNECTED"}) =>
                /\ StateOf(i)' = "RECONNECT_PENDING"
                /\ reconnectTimeouts'[i] \in PendingTimers(i)'
                /\ reconnectTimeouts'[i] = Len(timers) + 1]_vars

\* An error event delivered while CONNECTED has left the id CONNECTED.
C15_Witness ==
    /\ last.op = "error"
    /\ last.pre = "CONNECTED"
    /\ StateOf(last.id) = "CONNECTED"
    /\ PendingTimers(last.id) = {}

\* C16: as long as nobody disconnects the id, every close event (a transport
\* that failed to open or was closed) arms a reconnect timer; timers being
\* fired fairly, a pending timer of an id without a live transport leads to
\* a new connection attempt, however many attempts came before (as far as
\* the model creates sockets); and a transport that opens makes the id
\* CONNECTED.
C16_SelfHealing ==
    /\ [](last.op = "close" =>
            reconnectTimeouts[last.id] \in PendingTimers(last.id))
    /\ \A i \in Feed, n \in 0..(MaxSockets - 1) :
          (PendingTimers(i) # {} /\ LiveSockets(i) = {} /\ Len(sockets) = n)
             ~> (Len(sockets) > n)
    /\ [](last.op = "open" => StateOf(last.id) = "CONNECTED")

\* The id is CONNECTED on a transport created by a timer after two earlier
\* transports failed one after the other.
C16_Witness ==
    /\ last.op = "open"
    /\ StateOf(last.id) = "CONNECTED"
    /\ Cardinality({t \in 1..Len(timers) :
                      timers[t].id = last.id /\ timers[t].state = "fired"}) >= 2
    /\ \A s \in 1..(last.sock - 1) : sockets[s].readyState = "CLOSED"
    /\ last.sock >= 3

\* C17: a frame that fails to parse, delivered to a CONNECTED id, invokes no
\* handler, raises nothing and changes neither the transport, the timers,
\* the channel set nor the handlers of the id; a well-formed frame that
\* comes right after it is dispatched to the handlers of its type and to the
\* wildcard handlers as usual.
C17_MalformedFrameIgnored ==
    [][/\ (last'.op = "message" /\ last'.type = "malformed") =>
            /\ last'.calls = <<>>
            /\ ~last'.threw
            /\ UNCHANGED <<sockets, connections, timers, reconnectTimeouts,
                           subscribedChannels, handlerMaps, messageHandlers,
                           tokens>>
       /\ \A i \in Ids :
            (/\ last.op = "message" /\ last.type = "malformed" /\ last.id = i
             /\ last'.op = "message" /\ last'.type # "malformed" /\ last'.id = i
             /\ ~last'.threw) =>
                Invoked' = Range(Registry(i)[last'.type].set)
                              \cup Range(Registry(i)["all"].set)]_vars

\* A malformed frame has been delivered to an id that has a channel, a
\* handler for every frame and one for trade events, CONNECTED again after a
\* reconnection.
C17_Witness ==
    /\ last.op = "message"
    /\ last.type = "malformed"
    /\ last.pre = "CONNECTED"
    /\ Registry(last.id)["all"].set # <<>>
    /\ Registry(last.id)["trade_event"].set # <<>>
    /\ subscribedChannels[last.id].set # <<>>
    /\ \E t \in 1..Len(timers) : timers[t].state = "fired"

\* C18: a connect call, an open, close or error event, a timer firing, an
\* inbound frame and an isConnected query all leave the channel set and the
\* handler registry of every id as they were: what was subscribed and
\* registered before a forced close is still there on the next transport.
C18_OnlyDisconnectDiscardsIntent ==
    [][last'.op \in {"connect", "open", "close", "error", "timer", "message",
                     "isConnected"} =>
          UNCHANGED <<subscribedChannels, messageHandlers, handlerMaps>>]_vars

\* A transport created by a reconnect timer after a close has opened, the
\* channel subscribed before the close is sent on it, and the handler
\* registered before the close is still registered.
C18_Witness ==
    /\ last.op = "open"
    /\ last.frame.channels = <<"x">>
    /\ Registry(last.id)["trade_event"].set = <<"h1">>
    /\ \E s \in 1..(last.sock - 1) :
          sockets[s].id = last.id /\ sockets[s].readyState = "CLOSED"
    /\ \E t \in 1..Len(timers) :
          timers[t].id = last.id /\ timers[t].state = "fired"
    /\ ~released[last.id]
    /\ ~cleared[last.id]

\* C19: subscribe(id, C) on an id that is not CONNECTED sends no frame, puts
\* every channel of C in the channel set and returns with a CONNECTING
\* transport recorded for the id; no step other than unsubscribe and
\* disconnect takes a channel out of the set; and a transport that opens
\* leaves the id CONNECTED having sent one subscribe frame that lists the
\* whole set, hence every channel of C.
C19_SubscribeEstablishesFeed ==
    [][\A i \in Ids :
        /\ (last'.op = "subscribe" /\ last'.id = i /\ last'.pre # "CONNECTED") =>
              /\ last'.frame = NoFrame
              /\ \A s \in 1..Len(sockets) : sockets'[s].sent = sockets[s].sent
              /\ Range(last'.chans) \subseteq Range(subscribedChannels'[i].set)
              /\ StateOf(i)' = "CONNECTING"
        /\ last'.op \notin {"unsubscribe", "disconnect"} =>
              Range(subscribedChannels[i].set)
                 \subseteq Range(subscribedChannels'[i].set)
        /\ (last'.op = "open" /\ last'.id = i) =>
              /\ StateOf(i)' = "CONNECTED"
              /\ subscribedChannels[i].set # <<>> =>
                    /\ last'.frame.action = "subscribe"
                    /\ last'.frame.sock = connections'[i]
                    /\ Range(last'.frame.channels) = Range(subscribedChannels[i].set)
                    /\ sockets'[connections'[i]].sent = 1]_vars

\* The first transport of the id has opened and sent the channels subscribed
\* while it was connecting; nothing was disconnected, no timer ever armed.
C19_Witness ==
    /\ last.op = "open"
    /\ last.sock = 1
    /\ last.pre = "CONNECTING"
    /\ last.frame.channels # <<>>
    /\ ~released[last.id]
    /\ ~cleared[last.id]
    /\ timers = <<>>

\* C20: unsubscribe(id, C) leaves the recorded transport, the readyState of
\* every socket, the connection state of the id and the timers as they were,
\* also when it empties the channel set; called while CONNECTED it sends one
\* unsubscribe frame listing exactly C on the recorded transport, otherwise
\* it sends nothing and creates no socket.
C20_UnsubscribeKeepsConnection ==
    [][\A i \in Ids :
        (last'.op = "unsubscribe" /\ last'.id = i) =>
            /\ UNCHANGED <<connections, timers, reconnectTimeouts>>
            /\ Len(sockets') = Len(sockets)
            /\ \A s \in 1..Len(sockets) :
                  /\ sockets'[s].readyState = sockets[s].readyState
                  /\ sockets'[s].id = sockets[s].id
            /\ StateOf(i)' = StateOf(i)
            /\ IF StateOf(i) = "CONNECTED"
               THEN /\ last'.frame = Frame(connections[i], "unsubscribe", last'.chans)
                    /\ sockets' = wsSend(sockets, connections[i])
               ELSE /\ last'.frame = NoFrame
                    /\ sockets' = sockets]_vars

\* unsubscribe has emptied the channel set of a CONNECTED id, which is still
\* CONNECTED.
C20_Witness ==
    /\ last.op = "unsubscribe"
    /\ last.pre = "CONNECTED"
    /\ last.chans # <<>>
    /\ last.frame.action = "unsubscribe"
    /\ subscribedChannels[last.id].has
    /\ subscribedChannels[last.id].set = <<>>
    /\ StateOf(last.id) = "CONNECTED"

\* C21: in every reachable state isConnected(id) answers true exactly when
\* a transport the manager opened for the id is open.
C21_IsConnectedIffTransportOpen ==
    \A i \in Ids :
        isConnected(i) <=>
            \E s \in 1..Len(sockets) :
                sockets[s].id = i /\ sockets[s].readyState = "OPEN"

\* C22: disconnect(id) and unsubscribe(id, C) on an id the manager holds
\* nothing for create no socket, timer, record, channel set or handler
\* registry and send no frame: the id is as unknown after the call as
\* before.
C22_UnknownIdNoOp ==
    [][\A i \in Ids :
        (/\ Unknown(i)
         /\ last'.op \in {"disconnect", "unsubscribe"}
         /\ last'.id = i) =>
            /\ UNCHANGED <<sockets, connections, timers, reconnectTimeouts,
                           subscribedChannels, handlerMaps, messageHandlers,
                           tokens>>
            /\ last'.frame = NoFrame
            /\ Unknown(i)']_vars

\* unsubscribe with a channel has been called before anything else.
C22_Witness ==
    /\ last.op = "unsubscribe"
    /\ last.chans # <<>>
    /\ Unknown(last.id)
    /\ ~released[last.id]

\* C23: a call or a transport event of one id leaves the sockets, the
\* timers, the records, the channel set and the handler registry of every
\* other id as they were, and an inbound frame of one id invokes only
\* handlers registered on that id.
C23_IdsAreIndependent ==
    [][\A a \in Ids : last'.id = a =>
        /\ \A b \in Ids \ {a} :
              /\ connections'[b] = connections[b]
              /\ reconnectTimeouts'[b] = reconnectTimeouts[b]
              /\ subscribedChannels'[b] = subscribedChannels[b]
              /\ messageHandlers'[b] = messageHandlers[b]
              /\ Registry(b)' = Registry(b)
              /\ \A s \in 1..Len(sockets') :
                    sockets'[s].id = b => (s <= Len(sockets) /\ sockets'[s] = sockets[s])
              /\ \A t \in 1..Len(timers') :
                    timers'[t].id = b => (t <= Len(timers) /\ timers'[t] = timers[t])
        /\ last'.op = "message" =>
              Invoked' \subseteq Range(Registry(a)[last'.type].set)
                                \cup Range(Registry(a)["all"].set)]_vars

\* A frame of feed 1 has been dispatched to the handler of feed 1 while feed
\* 2 has a handler of its own, a channel and a transport, feed 1 having gone
\* through a close and a reconnection.
C23_Witness ==
    /\ last.op = "message"
    /\ last.id \in Feed
    /\ Invoked = {HandlerOf(last.id)}
    /\ Range(Registry(Other)["trade_event"].set) = {HandlerOf(Other)}
    /\ subscribedChannels[Other].set # <<>>
    /\ connections[Other] # None
    /\ \E t \in 1..Len(timers) :
          timers[t].id = last.id /\ timers[t].state = "fired"

\* C24: connect(id), or a subscribe(id, ...) that calls it, made while the id
\* is RECONNECT_PENDING cancels the recorded timer and creates exactly one
\* socket, which is recorded and CONNECTING; a cancelled timer stays
\* cancelled, so it never fires.
C24_ConnectCancelsPendingTimer ==
    [][/\ \A i \in Ids :
            (/\ last'.op \in {"connect", "subscribe"}
             /\ last'.id = i
             /\ last'.pre = "RECONNECT_PENDING") =>
                /\ timers'[reconnectTimeouts[i]].state = "cleared"
                /\ reconnectTimeouts'[i] = None
                /\ Len(sockets') = Len(sockets) + 1
                /\ connections'[i] = Len(sockets')
                /\ sockets'[Len(sockets')] =
                      [id |-> i, readyState |-> "CONNECTING", sent |-> 0]
                /\ StateOf(i)' = "CONNECTING"
       /\ \A t \in 1..Len(timers) :
            timers[t].state = "cleared" => timers'[t].state = "cleared"]_vars

\* connect has been called on a RECONNECT_PENDING id, whose timer is now
\* cancelled and which has a CONNECTING transport.
C24_Witness ==
    /\ last.op = "connect"
    /\ last.pre = "RECONNECT_PENDING"
    /\ StateOf(last.id) = "CONNECTING"
    /\ \E t \in 1..Len(timers) :
          timers[t].id = last.id /\ timers[t].state = "cleared"
    /\ PendingTimers(last.id) = {}

\* C25: in the dispatch of one frame every call made to a handler of the
\* frame's own type comes before every call made to a wildcard handler, and
\* when a wildcard handler is called all the handlers of the frame's type
\* have been called.
C25_TypeHandlersBeforeWildcard ==
    (last.op = "message" /\ last.type \notin {"malformed", "all"}) =>
        /\ \A j, k \in 1..Len(last.calls) :
              (last.calls[j].key = "all" /\ last.calls[k].key = last.type) => k < j
        /\ (\E j \in 1..Len(last.calls) : last.calls[j].key = "all") =>
              \A h \in Range(Registry(last.id)[last.type].set) :
                  \E k \in 1..Len(last.calls) :
                      last.calls[k] = [key |-> last.type, handler |-> h]

\* A frame has been dispatched to a handler of its type and then to a
\* wildcard handler.
C25_Witness ==
    /\ last.op = "message"
    /\ last.type = "trade_event"
    /\ Len(last.calls) = 2
    /\ last.calls[1].key = "trade_event"
    /\ last.calls[2].key = "all"
    /\ last.calls[1].handler # last.calls[2].handler

\* C26: the close event of a socket that is not the one recorded for its id
\* removes no record, arms no timer and leaves isConnected as it was.
C26_StaleCloseHasNoEffect ==
    [][\A i \in Ids, s \in 1..Len(sockets) :
        (/\ last'.op = "close"
         /\ last'.id = i
         /\ last'.sock = s
         /\ connections[i] # s) =>
            /\ UNCHANGED <<connections, timers, reconnectTimeouts>>
            /\ isConnected(i)' = isConnected(i)]_vars

\* C27: every pending timer of an id is the one recorded for the id, so
\* there is at most one.
C27_OnlyRecordedTimerPending ==
    \A i \in Ids :
        /\ PendingTimers(i) \subseteq {reconnectTimeouts[i]}
        /\ Cardinality(PendingTimers(i)) <= 1

\* C30: a handler that throws does not keep the other handlers registered
\* for the frame's type and for the wildcard from being called for that
\* frame.
C30_ThrowingHandlerDoesNotStopOthers ==
    (last.op = "message" /\ last.type # "malformed" /\ last.threw) =>
        Range(Registry(last.id)[last.type].set)
            \cup Range(Registry(last.id)["all"].set) \subseteq Invoked

\* C29: every frame is sent on a socket that is OPEN when it is sent (the
\* socket that has just opened, for the frame of onopen), never on one that
\* is CONNECTING, CLOSING or CLOSED; the count of frames sent on a socket
\* grows only while the socket is OPEN.
C29_FramesOnlyOnOpenSockets ==
    [][/\ last'.frame # NoFrame =>
            /\ last'.frame.sock \in 1..Len(sockets)
            /\ sockets'[last'.frame.sock].readyState = "OPEN"
            /\ \/ sockets[last'.frame.sock].readyState = "OPEN"
               \/ last'.op = "open" /\ last'.sock = last'.frame.sock
       /\ \A s \in 1..Len(sockets) :
            sockets'[s].sent > sockets[s].sent =>
                sockets'[s].readyState = "OPEN"]_vars

\* subscribe has sent a frame on the open socket of an id that also has a
\* socket which is closing.
C29_Witness ==
    /\ last.op = "subscribe"
    /\ last.frame # NoFrame
    /\ sockets[last.frame.sock].readyState = "OPEN"
    /\ \E s \in 1..Len(sockets) :
          sockets[s].id = last.id /\ sockets[s].readyState = "CLOSING"

\* C28: whenever an id is CONNECTED, replaying the frames sent on its
\* recorded socket since that socket opened (a subscribe frame adds its
\* channels, an unsubscribe frame removes them) gives the channel set of the
\* id.
C28_PeerViewEqualsChannelSet ==
    \A i \in Ids :
        StateOf(i) = "CONNECTED" =>
            server[i] = Range(subscribedChannels[i].set)

\* A CONNECTED id on a transport made by a reconnection, one channel left
\* after an unsubscribe sent on that transport.
C28_Witness ==
    /\ last.op = "unsubscribe"
    /\ last.frame # NoFrame
    /\ StateOf(last.id) = "CONNECTED"
    /\ server[last.id] # {}
    /\ server[last.id] # Channels
    /\ \E t \in 1..Len(timers) :
          timers[t].id = last.id /\ timers[t].state = "fired"
    /\ \E s \in 1..(connections[last.id] - 1) :
          sockets[s].id = last.id /\ sockets[s].readyState = "CLOSED"

====
